---- MODULE Spec2Model ----
(***************************************************************************)
(* grpc-health-probe (cmd/grpc-health-probe/main.go).                      *)
(*                                                                         *)
(* The process is modelled as the main goroutine (init() followed by       *)
(* main()), the cancellation listener goroutine started by main(), the     *)
(* signal channel between the operating system and the listener, the two   *)
(* timeout contexts derived from the cancellable parent context, and the   *)
(* remote endpoint, whose answers are nondeterministic.  A blocking call   *)
(* (grpc.DialContext with WithBlock, Health.Check) is a pending result     *)
(* that the first of three events resolves: the remote answers, the        *)
(* context's timer fires, or the parent context is cancelled.              *)
(*                                                                         *)
(* Time is a discrete clock that advances while a call is blocked and, by  *)
(* a bounded amount, between the calls.  A supervisor may run the probe    *)
(* again after it has exited; `prev` remembers what the previous run       *)
(* reported, and `first` the whole first run, so that two runs can be      *)
(* compared.  An interrupt that arrives before signal.Notify ends the      *)
(* process by the runtime's default action (pc = "killed").                *)
(***************************************************************************)
EXTENDS Integers, FiniteSets, Sequences

\* ---- bounds of the model ----
MaxDur == 2
MaxOverhead == 1
MaxStatus == 4

\* time.Second, the unit of the clock and the default of both timeouts (main.go:21-22)
Second == 1

\* ---- program constants (main.go:26-35) ----
StatusInvalidArguments_Two == 1 + 1
StatusInvalidArguments == 1
StatusConnectionFailure == 2
StatusRPCFailure == 3
StatusUnhealthy_Three == StatusRPCFailure
StatusUnhealthy == 4

\* values the command line can give the flags
URLs == {"", "host:port"}
Durations == (0 - 1)..MaxDur

\* results of grpc.DialContext other than nil
DialErrors == {"DeadlineExceeded", "Canceled", "Other"}
\* errors of Health.Check: gRPC status codes, or an error that carries no status
RemoteCodes == {"Unimplemented", "DeadlineExceeded", "Canceled", "Unavailable"}
RPCErrors == RemoteCodes \cup {"NonStatus"}
\* healthpb.HealthCheckResponse_ServingStatus: the enum values a response can
\* carry, the four named ones and values without a name
Statuses == 0..MaxStatus
HealthCheckResponse_SERVING == 1

Classifications == {"InvalidConfiguration", "ConnectionTimeout", "ConnectionFailure",
                    "RPCTimeout", "ProtocolUnimplemented", "RPCFailure",
                    "Unhealthy", "Healthy"}

VARIABLES
    remoteURL, connTimeoutDur, rpcTimeoutDur,   \* package-level flags
    pc,                 \* position of the main goroutine
    exitCode,           \* process exit status, -1 while running
    reported,           \* outcomes the process has logged
    notified,           \* signal.Notify(c, os.Interrupt) is in effect
    sigc,               \* number of signals buffered in channel c (capacity 1)
    lpc,                \* position of the listener goroutine
    cancelled,          \* the parent context ctx is cancelled
    now, overhead,      \* clock; time spent outside the blocking calls
    connStart, dialDeadline, dialErr, dialEnd, dialCount, connDuration,
    rpcStart, rpcDeadline, rpcErr, rpcEnd, rpcCount, rpcDuration, respStatus,
    rpcBy,              \* what ended the health RPC: the remote, the timer or cancel()
    connOpen, closeCount,
    verbose,            \* flag -v
    diagLines,          \* number of diagnostic lines logged because of -v
    statusLine,         \* the status string the process logged, "" while none
    intrStage,          \* stage that was blocked when the first interrupt arrived
    cancelStage,        \* stage that was blocked when cancel() was called
    cancelPc,           \* position of the main goroutine when cancel() was called
    prev,               \* classification and exit code of the previous run
    first               \* what the first of two compared runs was given and did

cfgVars == <<remoteURL, connTimeoutDur, rpcTimeoutDur, verbose>>
sigVars == <<notified, sigc, lpc, cancelled, intrStage, cancelStage, cancelPc>>
timeVars == <<now, overhead>>
dialVars == <<connStart, dialDeadline, dialErr, dialEnd, dialCount, connDuration>>
rpcVars == <<rpcStart, rpcDeadline, rpcErr, rpcEnd, rpcCount, rpcDuration, respStatus, rpcBy>>
connVars == <<connOpen, closeCount>>
logVars == <<diagLines, statusLine>>
vars == <<cfgVars, pc, exitCode, reported, sigVars, timeVars, dialVars, rpcVars,
          connVars, logVars, prev, first>>

\* ---- pure parts of the code ----

\* init(): the three argError checks; TRUE when none of them exits
ValidateArgs_Lax(url, ct, rt) == url /= "" /\ ct >= 0 /\ rt > 0
ValidateArgs(url, ct, rt) == ~(url = "") /\ ~(ct <= 0) /\ ~(rt <= 0)

\* context.WithTimeout(ctx, d): the deadline of the derived context
WithTimeout_Late(t, d) == t + d + 1
WithTimeout(t, d) == t + d

\* main(): the branch taken on a dial error
DialClass_AllTimeout(err) == IF err = "DeadlineExceeded" \/ err = "Canceled"
                             THEN "ConnectionTimeout" ELSE "ConnectionFailure"
DialClass(err) == IF err = "DeadlineExceeded" THEN "ConnectionTimeout"
                  ELSE "ConnectionFailure"

\* status.FromError(err): the status an error carries, ok = FALSE when it carries none
FromError(err) == IF err = "NonStatus" THEN [ok |-> FALSE, code |-> "Unknown"]
                  ELSE [ok |-> TRUE, code |-> err]

\* strconv.Itoa on the small values the model uses
Itoa(v) == <<"0", "1", "2", "3", "4", "5", "6", "7", "8", "9">>[v + 1]

\* healthpb.HealthCheckResponse_ServingStatus.String(): the name of the enum
\* value, or its number when it has no name
ServingStatus_name == <<"UNKNOWN", "SERVING", "NOT_SERVING", "SERVICE_UNKNOWN">>
StatusString_Unknown(v) == IF v \in 0..(Len(ServingStatus_name) - 1)
                           THEN ServingStatus_name[v + 1] ELSE "UNKNOWN"
StatusString(v) == IF v \in 0..(Len(ServingStatus_name) - 1)
                   THEN ServingStatus_name[v + 1] ELSE Itoa(v)

\* log lines that are printed only with -v
Diag(v, n) == IF v THEN n ELSE 0

\* main(): the branch taken on an RPC error
RPCClass_NoTimeout(err) ==
    IF FromError(err).ok /\ FromError(err).code = "Unimplemented" THEN "ProtocolUnimplemented"
    ELSE "RPCFailure"
RPCClass(err) ==
    IF FromError(err).ok /\ FromError(err).code = "Unimplemented" THEN "ProtocolUnimplemented"
    ELSE IF FromError(err).ok /\ FromError(err).code = "DeadlineExceeded" THEN "RPCTimeout"
    ELSE "RPCFailure"

\* ---- initial state: the process has been started, the package-level
\* variables hold their initial values ----
FreshRun ==
    /\ remoteURL = "" /\ connTimeoutDur = Second /\ rpcTimeoutDur = Second
    /\ verbose = FALSE /\ diagLines = 0 /\ statusLine = ""
    /\ pc = "init" /\ exitCode = 0 - 1 /\ reported = {}
    /\ notified = FALSE /\ sigc = 0 /\ lpc = "none" /\ cancelled = FALSE
    /\ intrStage = "none" /\ cancelStage = "none" /\ cancelPc = "none"
    /\ now = 0 /\ overhead = 0
    /\ connStart = 0 /\ dialDeadline = 0 /\ dialErr = "none" /\ dialEnd = 0
    /\ dialCount = 0 /\ connDuration = 0
    /\ rpcStart = 0 /\ rpcDeadline = 0 /\ rpcErr = "none" /\ rpcEnd = 0
    /\ rpcCount = 0 /\ rpcDuration = 0 /\ respStatus = 0 - 1 /\ rpcBy = "none"
    /\ connOpen = FALSE /\ closeCount = 0

\* no run has been recorded
NoRun == [cfg |-> <<>>, env |-> <<>>, calls |-> <<>>, class |-> {}, code |-> 0 - 1]

Init == FreshRun /\ prev = [class |-> {}, code |-> 0 - 1] /\ first = NoRun

\* ---- main goroutine ----

\* init(): flag.Parse and the argError checks
ParseFlags ==
    /\ pc = "init"
    /\ \E url \in URLs, ct \in Durations, rt \in Durations, v \in BOOLEAN :
          /\ remoteURL' = url /\ connTimeoutDur' = ct /\ rpcTimeoutDur' = rt
          /\ verbose' = v
          /\ IF ValidateArgs(url, ct, rt)
             THEN /\ pc' = "main"
                  /\ diagLines' = diagLines + Diag(v, 2)
                  /\ UNCHANGED <<exitCode, reported>>
             ELSE /\ reported' = reported \cup {"InvalidConfiguration"}
                  /\ exitCode' = StatusInvalidArguments
                  /\ pc' = "exited"
                  /\ UNCHANGED diagLines
    /\ UNCHANGED <<sigVars, timeVars, dialVars, rpcVars, connVars, statusLine, prev, first>>

\* main(): context.WithCancel, signal.Notify, go func() { ... }, the dial options
Setup ==
    /\ pc = "main"
    /\ notified' = TRUE /\ lpc' = "waiting" /\ pc' = "dial"
    /\ diagLines' = diagLines + Diag(verbose, 1)
    /\ UNCHANGED <<cfgVars, exitCode, reported, sigc, cancelled, intrStage,
                   cancelStage, cancelPc, timeVars, dialVars, rpcVars, connVars, statusLine, prev, first>>

\* main(): connStart, context.WithTimeout(ctx, connTimeoutDur), grpc.DialContext is called
DialStart ==
    /\ pc = "dial"
    /\ connStart' = now
    /\ dialDeadline' = WithTimeout(now, connTimeoutDur)
    /\ dialCount' = dialCount + 1
    /\ dialErr' = IF cancelled THEN "Canceled" ELSE "pending"
    /\ dialEnd' = now
    /\ pc' = "dialing"
    /\ UNCHANGED <<cfgVars, exitCode, reported, sigVars, timeVars, connDuration, rpcVars,
                   connVars, logVars, prev, first>>

\* main(): grpc.DialContext returns; the error branch exits, otherwise defer conn.Close()
DialReturn_NoExit ==
    /\ pc = "dialing" /\ dialErr /= "pending"
    /\ IF dialErr /= "nil"
       THEN /\ reported' = reported \cup {DialClass(dialErr)}
            /\ pc' = "rpc"
            /\ UNCHANGED <<exitCode, connDuration, connOpen, diagLines>>
       ELSE /\ connDuration' = now - connStart
            /\ connOpen' = TRUE
            /\ diagLines' = diagLines + Diag(verbose, 1)
            /\ pc' = "rpc"
            /\ UNCHANGED <<exitCode, reported>>
    /\ UNCHANGED <<cfgVars, sigVars, timeVars, connStart, dialDeadline, dialErr, dialEnd,
                   dialCount, rpcVars, closeCount, statusLine, prev, first>>
DialReturn ==
    /\ pc = "dialing" /\ dialErr /= "pending"
    /\ IF dialErr /= "nil"
       THEN /\ reported' = reported \cup {DialClass(dialErr)}
            /\ exitCode' = StatusConnectionFailure
            /\ pc' = "exited"
            /\ UNCHANGED <<connDuration, connOpen, diagLines>>
       ELSE /\ connDuration' = now - connStart
            /\ connOpen' = TRUE
            /\ diagLines' = diagLines + Diag(verbose, 1)
            /\ pc' = "rpc"
            /\ UNCHANGED <<exitCode, reported>>
    /\ UNCHANGED <<cfgVars, sigVars, timeVars, connStart, dialDeadline, dialErr, dialEnd,
                   dialCount, rpcVars, closeCount, statusLine, prev, first>>

\* main(): rpcStart, context.WithTimeout(ctx, rpcTimeoutDur), Health.Check is called
RPCStart_Background ==
    /\ pc = "rpc"
    /\ rpcStart' = now
    /\ rpcDeadline' = WithTimeout(now, rpcTimeoutDur)
    /\ rpcCount' = rpcCount + 1
    /\ rpcErr' = "pending"
    /\ rpcBy' = "none"
    /\ rpcEnd' = now
    /\ pc' = "calling"
    /\ UNCHANGED <<cfgVars, exitCode, reported, sigVars, timeVars, dialVars, rpcDuration,
                   respStatus, connVars, logVars, prev, first>>
RPCStart ==
    /\ pc = "rpc"
    /\ rpcStart' = now
    /\ rpcDeadline' = WithTimeout(now, rpcTimeoutDur)
    /\ rpcCount' = rpcCount + 1
    /\ rpcErr' = IF cancelled THEN "Canceled" ELSE "pending"
    /\ rpcBy' = IF cancelled THEN "cancel" ELSE "none"
    /\ rpcEnd' = now
    /\ pc' = "calling"
    /\ UNCHANGED <<cfgVars, exitCode, reported, sigVars, timeVars, dialVars, rpcDuration,
                   respStatus, connVars, logVars, prev, first>>

\* main(): Health.Check returns; the error branch exits
RPCReturn_ByClock ==
    /\ pc = "calling" /\ rpcErr /= "pending"
    /\ IF rpcErr /= "nil"
       THEN /\ reported' = reported \cup {IF now - rpcStart >= rpcTimeoutDur
                                           THEN "RPCTimeout" ELSE RPCClass(rpcErr)}
            /\ exitCode' = StatusRPCFailure
            /\ pc' = "exited"
            /\ UNCHANGED rpcDuration
       ELSE /\ rpcDuration' = now - rpcStart
            /\ pc' = "check"
            /\ UNCHANGED <<exitCode, reported>>
    /\ UNCHANGED <<cfgVars, sigVars, timeVars, dialVars, rpcStart, rpcDeadline, rpcErr,
                   rpcEnd, rpcCount, respStatus, rpcBy, connVars, logVars, prev, first>>
RPCReturn ==
    /\ pc = "calling" /\ rpcErr /= "pending"
    /\ IF rpcErr /= "nil"
       THEN /\ reported' = reported \cup {RPCClass(rpcErr)}
            /\ exitCode' = StatusRPCFailure
            /\ pc' = "exited"
            /\ UNCHANGED rpcDuration
       ELSE /\ rpcDuration' = now - rpcStart
            /\ pc' = "check"
            /\ UNCHANGED <<exitCode, reported>>
    /\ UNCHANGED <<cfgVars, sigVars, timeVars, dialVars, rpcStart, rpcDeadline, rpcErr,
                   rpcEnd, rpcCount, respStatus, rpcBy, connVars, logVars, prev, first>>

\* main(): resp.GetStatus() against SERVING, then the status line
CheckStatus_NoExit ==
    /\ pc = "check"
    /\ IF respStatus /= HealthCheckResponse_SERVING
       THEN reported' = reported \cup {"Unhealthy", "Healthy"}
       ELSE reported' = reported \cup {"Healthy"}
    /\ statusLine' = StatusString(respStatus)
    /\ diagLines' = diagLines + Diag(verbose, 1)
    /\ pc' = "return"
    /\ UNCHANGED <<cfgVars, exitCode, sigVars, timeVars, dialVars, rpcVars, connVars, prev, first>>
CheckStatus_CtxErr ==
    /\ pc = "check"
    /\ statusLine' = StatusString(respStatus)
    /\ IF cancelled
       THEN /\ reported' = reported \cup {"RPCFailure"}
            /\ exitCode' = StatusRPCFailure
            /\ pc' = "exited"
            /\ UNCHANGED diagLines
       ELSE IF respStatus /= HealthCheckResponse_SERVING
       THEN /\ reported' = reported \cup {"Unhealthy"}
            /\ exitCode' = StatusUnhealthy
            /\ pc' = "exited"
            /\ UNCHANGED diagLines
       ELSE /\ reported' = reported \cup {"Healthy"}
            /\ diagLines' = diagLines + Diag(verbose, 1)
            /\ pc' = "return"
            /\ UNCHANGED exitCode
    /\ UNCHANGED <<cfgVars, sigVars, timeVars, dialVars, rpcVars, connVars, prev, first>>
CheckStatus_VerboseExit ==
    /\ pc = "check"
    /\ statusLine' = StatusString(respStatus)
    /\ IF respStatus /= HealthCheckResponse_SERVING /\ verbose
       THEN /\ reported' = reported \cup {"Unhealthy"}
            /\ exitCode' = StatusUnhealthy
            /\ pc' = "exited"
            /\ UNCHANGED diagLines
       ELSE /\ reported' = reported \cup
                  (IF respStatus /= HealthCheckResponse_SERVING THEN {"Unhealthy"} ELSE {})
                  \cup {"Healthy"}
            /\ diagLines' = diagLines + Diag(verbose, 1)
            /\ pc' = "return"
            /\ UNCHANGED exitCode
    /\ UNCHANGED <<cfgVars, sigVars, timeVars, dialVars, rpcVars, connVars, prev, first>>
CheckStatus ==
    /\ pc = "check"
    /\ statusLine' = StatusString(respStatus)
    /\ IF respStatus /= HealthCheckResponse_SERVING
       THEN /\ reported' = reported \cup {"Unhealthy"}
            /\ exitCode' = StatusUnhealthy
            /\ pc' = "exited"
            /\ UNCHANGED diagLines
       ELSE /\ reported' = reported \cup {"Healthy"}
            /\ diagLines' = diagLines + Diag(verbose, 1)
            /\ pc' = "return"
            /\ UNCHANGED exitCode
    /\ UNCHANGED <<cfgVars, sigVars, timeVars, dialVars, rpcVars, connVars, prev, first>>

\* main() returns: the deferred rpcCancel, conn.Close and cancel2 run, the process exits 0
MainReturn ==
    /\ pc = "return"
    /\ connOpen' = FALSE
    /\ closeCount' = closeCount + 1
    /\ exitCode' = 0
    /\ pc' = "exited"
    /\ UNCHANGED <<cfgVars, reported, sigVars, timeVars, dialVars, rpcVars, logVars, prev, first>>

\* ---- the remote endpoint and the timers of the two contexts ----

DialPending == pc = "dialing" /\ dialErr = "pending"
RPCPending == pc = "calling" /\ rpcErr = "pending"

DialResolve(e) ==
    /\ DialPending
    /\ dialErr' = e /\ dialEnd' = now
    /\ UNCHANGED <<cfgVars, pc, exitCode, reported, sigVars, timeVars, connStart,
                   dialDeadline, dialCount, connDuration, rpcVars, connVars, logVars, prev, first>>

\* the connection becomes ready
ConnReady == DialResolve("nil")
\* the dial fails with an error that is neither a timeout nor a cancellation
ConnError == DialResolve("Other")
\* the timer of dialCtx fires
DialTimerFires == now >= dialDeadline /\ DialResolve("DeadlineExceeded")

RPCResolve(e, s, by) ==
    /\ RPCPending
    /\ rpcErr' = e /\ respStatus' = s /\ rpcEnd' = now /\ rpcBy' = by
    /\ UNCHANGED <<cfgVars, pc, exitCode, reported, sigVars, timeVars, dialVars, rpcStart,
                   rpcDeadline, rpcCount, rpcDuration, connVars, logVars, prev, first>>

\* the server answers the health check
ServerReplies == \E s \in Statuses : RPCResolve("nil", s, "remote")
\* the server or the transport fails the health check
ServerErrors == \E e \in RPCErrors : RPCResolve(e, respStatus, "remote")
\* the timer of rpcCtx fires
RPCTimerFires == now >= rpcDeadline /\ RPCResolve("DeadlineExceeded", respStatus, "timer")

\* ---- signals and the listener goroutine ----

BlockedStage == IF DialPending THEN "connect" ELSE IF RPCPending THEN "rpc" ELSE "other"

\* the operating system delivers os.Interrupt; channel c holds at most one signal
Interrupt ==
    /\ notified /\ pc /= "exited"
    /\ sigc' = 1
    /\ intrStage' = IF intrStage = "none" THEN BlockedStage ELSE intrStage
    /\ UNCHANGED <<cfgVars, pc, exitCode, reported, notified, lpc, cancelled, cancelStage,
                   cancelPc, timeVars, dialVars, rpcVars, connVars, logVars, prev, first>>

\* os.Interrupt arrives before signal.Notify: the Go runtime lets the signal
\* terminate the process
InterruptKills ==
    /\ ~notified /\ pc \in {"init", "main"}
    /\ pc' = "killed"
    /\ intrStage' = BlockedStage
    /\ UNCHANGED <<cfgVars, exitCode, reported, notified, sigc, lpc, cancelled, cancelStage,
                   cancelPc, timeVars, dialVars, rpcVars, connVars, logVars, prev, first>>

\* go func(): sig := <-c; cancel(); the contexts derived from ctx are cancelled with it
ListenerCancel_ClosesConn ==
    /\ lpc = "waiting" /\ sigc > 0 /\ pc /= "exited"
    /\ sigc' = sigc - 1
    /\ lpc' = "done"
    /\ cancelled' = TRUE
    /\ cancelStage' = BlockedStage
    /\ cancelPc' = pc
    /\ IF DialPending THEN dialErr' = "Canceled" /\ dialEnd' = now
                      ELSE UNCHANGED <<dialErr, dialEnd>>
    /\ IF RPCPending THEN rpcErr' = "Canceled" /\ rpcEnd' = now /\ rpcBy' = "cancel"
                     ELSE UNCHANGED <<rpcErr, rpcEnd, rpcBy>>
    /\ connOpen' = FALSE
    /\ closeCount' = IF connOpen THEN closeCount + 1 ELSE closeCount
    /\ UNCHANGED <<cfgVars, pc, exitCode, reported, notified, intrStage,
                   timeVars, connStart, dialDeadline, dialCount, connDuration, rpcStart,
                   rpcDeadline, rpcCount, rpcDuration, respStatus, logVars, prev, first>>
ListenerCancel_DialOnly ==
    /\ lpc = "waiting" /\ sigc > 0 /\ pc /= "exited"
    /\ sigc' = sigc - 1
    /\ lpc' = "done"
    /\ cancelled' = TRUE
    /\ cancelStage' = BlockedStage
    /\ cancelPc' = pc
    /\ IF DialPending THEN dialErr' = "Canceled" /\ dialEnd' = now
                      ELSE UNCHANGED <<dialErr, dialEnd>>
    /\ UNCHANGED <<rpcErr, rpcEnd, rpcBy>>
    /\ UNCHANGED <<cfgVars, pc, exitCode, reported, notified, intrStage,
                   timeVars, connStart, dialDeadline, dialCount, connDuration, rpcStart,
                   rpcDeadline, rpcCount, rpcDuration, respStatus, connVars, logVars, prev, first>>
ListenerCancel ==
    /\ lpc = "waiting" /\ sigc > 0 /\ pc /= "exited"
    /\ sigc' = sigc - 1
    /\ lpc' = "done"
    /\ cancelled' = TRUE
    /\ cancelStage' = BlockedStage
    /\ cancelPc' = pc
    /\ IF DialPending THEN dialErr' = "Canceled" /\ dialEnd' = now
                      ELSE UNCHANGED <<dialErr, dialEnd>>
    /\ IF RPCPending THEN rpcErr' = "Canceled" /\ rpcEnd' = now /\ rpcBy' = "cancel"
                     ELSE UNCHANGED <<rpcErr, rpcEnd, rpcBy>>
    /\ UNCHANGED <<cfgVars, pc, exitCode, reported, notified, intrStage,
                   timeVars, connStart, dialDeadline, dialCount, connDuration, rpcStart,
                   rpcDeadline, rpcCount, rpcDuration, respStatus, connVars, logVars, prev, first>>

\* ---- time ----

\* the clock advances while a call is blocked short of its deadline, and by a
\* bounded amount before a call is issued
Tick ==
    /\ \/ DialPending /\ now < dialDeadline /\ UNCHANGED overhead
       \/ RPCPending /\ now < rpcDeadline /\ UNCHANGED overhead
       \/ pc \in {"dial", "rpc"} /\ overhead < MaxOverhead /\ overhead' = overhead + 1
    /\ now' = now + 1
    /\ UNCHANGED <<cfgVars, pc, exitCode, reported, sigVars, dialVars, rpcVars, connVars, logVars, prev, first>>

\* ---- the supervisor runs the probe again ----
\* a new process starts: every variable of the program has its initial value
NewProcess ==
    /\ remoteURL' = "" /\ connTimeoutDur' = Second /\ rpcTimeoutDur' = Second
    /\ verbose' = FALSE /\ diagLines' = 0 /\ statusLine' = ""
    /\ pc' = "init" /\ exitCode' = 0 - 1 /\ reported' = {}
    /\ notified' = FALSE /\ sigc' = 0 /\ lpc' = "none" /\ cancelled' = FALSE
    /\ intrStage' = "none" /\ cancelStage' = "none" /\ cancelPc' = "none"
    /\ now' = 0 /\ overhead' = 0
    /\ connStart' = 0 /\ dialDeadline' = 0 /\ dialErr' = "none" /\ dialEnd' = 0
    /\ dialCount' = 0 /\ connDuration' = 0
    /\ rpcStart' = 0 /\ rpcDeadline' = 0 /\ rpcErr' = "none" /\ rpcEnd' = 0
    /\ rpcCount' = 0 /\ rpcDuration' = 0 /\ respStatus' = 0 - 1 /\ rpcBy' = "none"
    /\ connOpen' = FALSE /\ closeCount' = 0

Restart ==
    /\ pc = "exited"
    /\ prev' = [class |-> reported, code |-> exitCode]
    /\ first' = first
    /\ NewProcess

\* what the two blocking calls of this run returned, and what ended the RPC
Env == <<dialErr, rpcErr, rpcBy, respStatus>>

\* the supervisor runs the probe a second time; the first run is remembered
Rerun ==
    /\ pc = "exited" /\ first = NoRun
    /\ first' = [cfg |-> <<remoteURL, connTimeoutDur, rpcTimeoutDur, verbose>>,
                 env |-> Env, calls |-> <<dialCount, rpcCount>>,
                 class |-> reported, code |-> exitCode]
    /\ prev' = prev
    /\ NewProcess

MainStep == ParseFlags \/ Setup \/ DialStart \/ DialReturn \/ RPCStart \/ RPCReturn
            \/ CheckStatus \/ MainReturn
TimerStep == DialTimerFires \/ RPCTimerFires

Next ==
    \/ ParseFlags \/ Setup \/ DialStart \/ DialReturn \/ RPCStart \/ RPCReturn
    \/ CheckStatus \/ MainReturn
    \/ ConnReady \/ ConnError \/ DialTimerFires
    \/ ServerReplies \/ ServerErrors \/ RPCTimerFires
    \/ Interrupt \/ InterruptKills \/ ListenerCancel
    \/ Tick

Spec == Init /\ [][Next]_vars

\* successive runs of the probe
NextRuns == Next \/ Restart
SpecRuns == Init /\ [][NextRuns]_vars

\* the target's part of an Env: what the remote answered to each call,
\* "silent" where the call ended without an answer of the remote
TargetOf(env) ==
    << IF env[1] \in {"nil", "Other"} THEN env[1] ELSE "silent",
       IF env[3] = "remote" THEN <<env[2], env[4]>> ELSE <<"silent", 0 - 1>> >>

\* the second run is given the command line of the first, but for -v, and the
\* target answers a call as it answered it in the first run, if it answers
SameInputs ==
    \/ first = NoRun
    \/ /\ pc \notin {"init", "killed"} => <<remoteURL, connTimeoutDur, rpcTimeoutDur>> =
                             <<first.cfg[1], first.cfg[2], first.cfg[3]>>
       /\ dialErr \in {"nil", "Other"} => dialErr = first.env[1]
       /\ rpcBy = "remote" => TargetOf(Env)[2] = TargetOf(first.env)[2]

\* two runs of the probe, the second compared with the first
NextRerun == (Next /\ SameInputs') \/ Rerun
SpecRerun == Init /\ [][NextRerun]_vars

\* The Go scheduler runs the main goroutine, the clock advances and the
\* runtime fires expired timers; nothing is assumed of the remote endpoint,
\* of the signals or of the listener.
FairSpec == Spec /\ WF_vars(MainStep) /\ WF_vars(Tick) /\ WF_vars(TimerStep)

TypeOK ==
    /\ remoteURL \in URLs /\ connTimeoutDur \in Durations /\ rpcTimeoutDur \in Durations
    /\ pc \in {"init", "main", "dial", "dialing", "rpc", "calling", "check", "return", "exited",
              "killed"}
    /\ exitCode \in (0 - 1)..4
    /\ reported \subseteq Classifications
    /\ dialErr \in {"none", "pending", "nil"} \cup DialErrors
    /\ rpcErr \in {"none", "pending", "nil"} \cup RPCErrors
    /\ respStatus \in {0 - 1} \cup Statuses
    /\ verbose \in BOOLEAN /\ diagLines \in 0..5
    /\ sigc \in 0..1 /\ lpc \in {"none", "waiting", "done"}
    /\ closeCount \in Nat /\ connOpen \in BOOLEAN

\* ---- properties ----

ValidConfig == remoteURL /= "" /\ connTimeoutDur > 0 /\ rpcTimeoutDur > 0
Exited == pc = "exited"
ConnectFailed == dialErr \in DialErrors
RPCFailed == dialErr = "nil" /\ rpcErr \in RPCErrors
RPCSucceeded == dialErr = "nil" /\ rpcErr = "nil"

\* C1: with a valid configuration the exit code is 2 exactly when the connect
\* stage failed (ConnectionTimeout or ConnectionFailure), 3 exactly when the
\* connection was established and the health RPC returned an error (RPCTimeout,
\* RPCFailure or ProtocolUnimplemented), 4 exactly when the RPC succeeded with a
\* status other than SERVING, and 0 exactly when it succeeded with SERVING.
C1_ExitCodeTable ==
    (Exited /\ ValidConfig) =>
        /\ exitCode \in {0, 2, 3, 4}
        /\ (exitCode = 2) <=> ConnectFailed
        /\ (exitCode = 2) <=> (reported \in {{"ConnectionTimeout"}, {"ConnectionFailure"}})
        /\ (exitCode = 3) <=> RPCFailed
        /\ (exitCode = 3) <=> (reported \in {{"RPCTimeout"}, {"RPCFailure"},
                                             {"ProtocolUnimplemented"}})
        /\ (exitCode = 4) <=> (RPCSucceeded /\ respStatus /= HealthCheckResponse_SERVING)
        /\ (exitCode = 4) <=> (reported = {"Unhealthy"})
        /\ (exitCode = 0) <=> (RPCSucceeded /\ respStatus = HealthCheckResponse_SERVING)
        /\ (exitCode = 0) <=> (reported = {"Healthy"})
C1_Witness ==
    Exited /\ ValidConfig /\ exitCode = 4 /\ StatusString(respStatus) = "SERVICE_UNKNOWN"

\* C2: on every exit path on which the connection was opened, it has been
\* released exactly once when the process exits.
C2_ReleasedOnce ==
    (Exited /\ dialErr = "nil") => (closeCount = 1 /\ ~connOpen)

\* the row of the exit-code table a classification stands in
TableRow(c) ==
    IF c = "InvalidConfiguration" THEN "invalid arguments"
    ELSE IF c \in {"ConnectionTimeout", "ConnectionFailure"} THEN "could not connect"
    ELSE IF c \in {"RPCTimeout", "RPCFailure", "ProtocolUnimplemented"} THEN "RPC failed"
    ELSE IF c = "Unhealthy" THEN "non-serving"
    ELSE "serving"

\* C3 (as stated): two runs that end with different classifications end with
\* different exit codes.
C3_Injective ==
    (Exited /\ prev.class /= {} /\ prev.class /= reported) => prev.code /= exitCode
\* C3 (amended): two runs end with the same exit code exactly when their
\* classifications stand in the same row of the exit-code table.
C3_DistinctPerRow ==
    (Exited /\ prev.class /= {}) =>
        \A c1 \in prev.class, c2 \in reported :
            (prev.code = exitCode) <=> (TableRow(c1) = TableRow(c2))
C3_Witness ==
    Exited /\ prev.class = {"ConnectionTimeout"} /\ reported = {"ConnectionFailure"}

\* C6: a health RPC is issued only after the connection has been established,
\* never after a failed connect; there is at most one connect attempt and at
\* most one health RPC in a run, and the RPC is in flight only after the dial
\* has returned.
C6_Sequential ==
    /\ dialCount <= 1 /\ rpcCount <= 1
    /\ ConnectFailed => (rpcCount = 0 /\ rpcErr = "none")
    /\ (rpcCount > 0 \/ rpcErr /= "none") => (dialErr = "nil" /\ dialCount = 1)
    /\ ~(dialErr = "pending" /\ rpcErr = "pending")
    /\ (Exited /\ ConnectFailed) => rpcCount = 0
C6_Witness ==
    Exited /\ dialErr = "Other" /\ dialCount = 1 /\ rpcCount = 0

\* C7: an empty address or a timeout that is not greater than zero makes the
\* process exit with code 1 before any connection attempt or RPC; a run whose
\* configuration passed validation never exits with code 1.
C7_InvalidArguments ==
    /\ ~ValidConfig => (dialCount = 0 /\ rpcCount = 0 /\ pc \in {"init", "exited", "killed"})
    /\ Exited => ((exitCode = 1) <=> ~ValidConfig)
    /\ (Exited /\ ~ValidConfig) => reported = {"InvalidConfiguration"}
C7_Witness ==
    Exited /\ exitCode = 1 /\ remoteURL /= "" /\ connTimeoutDur = 0 /\ rpcTimeoutDur > 0

\* C8: a run that has ended reported exactly one classification of the
\* taxonomy, and within a run a reported classification is never followed by
\* another.
C8_OneClassification ==
    /\ [](Exited => (Cardinality(reported) = 1 /\ reported \subseteq Classifications))
    /\ [][(reported /= {} /\ pc' /= "init") => reported' = reported]_vars
C8_Witness ==
    Exited /\ reported = {"Unhealthy"} /\ StatusString(respStatus) = "NOT_SERVING" /\ closeCount = 0

\* C9: a failed connect is ConnectionTimeout exactly when the failure is the
\* expiry of the connect deadline; every other connect error, cancellation
\* included, is ConnectionFailure.
C9_ConnectClassification ==
    (Exited /\ ConnectFailed) =>
        /\ (reported = {"ConnectionTimeout"}) <=> (dialErr = "DeadlineExceeded")
        /\ dialErr = "DeadlineExceeded" => (dialEnd = dialDeadline /\ cancelStage /= "connect")
        /\ dialErr /= "DeadlineExceeded" => reported = {"ConnectionFailure"}
C9_Witness ==
    Exited /\ dialErr = "Canceled" /\ reported = {"ConnectionFailure"}
           /\ dialEnd = dialDeadline

\* C10: an RPC error is ProtocolUnimplemented when its status code is
\* Unimplemented, otherwise RPCTimeout when the code is DeadlineExceeded,
\* otherwise RPCFailure; never Healthy or Unhealthy.
C10_RPCClassification ==
    (Exited /\ RPCFailed) =>
        /\ reported = { IF rpcErr = "Unimplemented" THEN "ProtocolUnimplemented"
                        ELSE IF rpcErr = "DeadlineExceeded" THEN "RPCTimeout"
                        ELSE "RPCFailure" }
        /\ reported \cap {"Healthy", "Unhealthy"} = {}
        /\ exitCode = 3
C10_Witness ==
    Exited /\ rpcErr = "DeadlineExceeded" /\ rpcBy = "remote" /\ reported = {"RPCTimeout"}

\* C4: with a valid configuration a run always terminates, whatever the remote
\* endpoint does: the connect stage ends no later than connTimeoutDur after it
\* started, the RPC stage no later than rpcTimeoutDur after it started, and the
\* time spent blocked is at most connTimeoutDur + rpcTimeoutDur.
C4_StageBounds ==
    ValidConfig =>
        /\ pc = "dialing" => now - connStart <= connTimeoutDur
        /\ dialErr \notin {"none", "pending"} => dialEnd - connStart <= connTimeoutDur
        /\ pc = "calling" => now - rpcStart <= rpcTimeoutDur
        /\ rpcErr \notin {"none", "pending"} => rpcEnd - rpcStart <= rpcTimeoutDur
        /\ now - overhead <= connTimeoutDur + rpcTimeoutDur
C4_BoundedTermination ==
    /\ []C4_StageBounds
    /\ (pc \notin {"exited", "killed"}) ~> (pc \in {"exited", "killed"})
C4_Witness ==
    /\ Exited /\ intrStage = "none" /\ rpcBy = "timer"
    /\ dialEnd - connStart = connTimeoutDur
    /\ rpcEnd - rpcStart = rpcTimeoutDur
    /\ now - overhead = connTimeoutDur + rpcTimeoutDur

\* C5 (as stated): an interrupt that arrives while the connect is in flight
\* ends the run as ConnectionFailure with exit code 2, and one that arrives
\* while the health RPC is in flight ends it as RPCFailure with exit code 3.
C5_InterruptAborts ==
    Exited =>
        /\ intrStage = "connect" => (reported = {"ConnectionFailure"} /\ exitCode = 2)
        /\ intrStage = "rpc" => (reported = {"RPCFailure"} /\ exitCode = 3)
\* C5 (amended): when the listener calls cancel() while a stage is blocked,
\* that stage ends at that moment with a cancellation error, no later than its
\* deadline, and the run ends as ConnectionFailure with exit code 2 (connect
\* stage, no RPC is issued) or as RPCFailure with exit code 3 (RPC stage).
C5_CancelAborts ==
    /\ cancelStage = "connect" =>
          /\ dialErr = "Canceled" /\ dialEnd <= dialDeadline /\ now = dialEnd
          /\ rpcCount = 0 /\ pc \in {"dialing", "exited"}
          /\ Exited => (reported = {"ConnectionFailure"} /\ exitCode = 2)
    /\ cancelStage = "rpc" =>
          /\ rpcErr = "Canceled" /\ rpcEnd <= rpcDeadline /\ now = rpcEnd
          /\ pc \in {"calling", "exited"}
          /\ Exited => (reported = {"RPCFailure"} /\ exitCode = 3)
C5_Witness ==
    Exited /\ cancelStage = "rpc" /\ intrStage = "rpc" /\ rpcEnd < rpcDeadline
           /\ exitCode = 3

\* the name the health-checking protocol gives a status value
ProtocolStatusName(v) ==
    CASE v = 0 -> "UNKNOWN" [] v = 1 -> "SERVING" [] v = 2 -> "NOT_SERVING"
      [] v = 3 -> "SERVICE_UNKNOWN" [] OTHER -> Itoa(v)

\* C11: when the health RPC succeeds the outcome is Healthy exactly when the
\* reported status is SERVING; every other status gives Unhealthy with exit
\* code 4, and the status the process reports is the status the remote sent,
\* under its protocol name.
C11_StatusReported ==
    (Exited /\ RPCSucceeded) =>
        /\ (reported = {"Healthy"}) <=> (respStatus = 1)
        /\ (exitCode = 0) <=> (respStatus = 1)
        /\ respStatus /= 1 => (reported = {"Unhealthy"} /\ exitCode = 4)
        /\ statusLine = ProtocolStatusName(respStatus)
C11_Witness ==
    Exited /\ RPCSucceeded /\ respStatus = 4 /\ statusLine = "4" /\ exitCode = 4

Config == <<remoteURL, connTimeoutDur, rpcTimeoutDur, verbose>>
SecondRunEnded == Exited /\ first /= NoRun
SameOutcome == first.class = reported /\ first.code = exitCode
\* the call that cancel() cut short, if any
CancelledCall(env) ==
    IF env[1] = "Canceled" THEN "connect" ELSE IF env[3] = "cancel" THEN "rpc" ELSE "none"

\* C12 (as stated): two runs with the same configuration, to which the target
\* gave the same answers, end with the same classification and exit code.
C12_SameTarget ==
    (SecondRunEnded /\ first.cfg = Config /\ TargetOf(first.env) = TargetOf(Env))
        => SameOutcome
\* C12 (amended): two runs with the same configuration, to which the target
\* gave the same answers and in which cancel() cut short the same call or
\* none, end with the same classification and exit code; the second run
\* starts from the initial values of every variable.
C12_SameTargetAndCancel ==
    /\ (SecondRunEnded /\ first.cfg = Config /\ TargetOf(first.env) = TargetOf(Env)
           /\ CancelledCall(first.env) = CancelledCall(Env))
          => (SameOutcome /\ first.env = Env)
    /\ (first /= NoRun /\ pc = "init") => FreshRun
C12_Witness ==
    /\ SecondRunEnded /\ first.cfg = Config /\ first.env = Env
    /\ rpcBy = "cancel" /\ reported = {"RPCFailure"} /\ first.class = {"RPCFailure"}

\* C13: two runs that differ only in -v, in which the two calls returned the
\* same results, make the same calls and end with the same classification and
\* exit code.
C13_VerboseNoEffect ==
    (SecondRunEnded /\ first.cfg[4] /= verbose
        /\ <<first.cfg[1], first.cfg[2], first.cfg[3]>>
             = <<remoteURL, connTimeoutDur, rpcTimeoutDur>>
        /\ first.env = Env)
        => (SameOutcome /\ first.calls = <<dialCount, rpcCount>>)
C13_Witness ==
    /\ SecondRunEnded /\ first.cfg[4] = FALSE /\ verbose /\ first.env = Env
    /\ diagLines = 5 /\ reported = {"Healthy"} /\ first.class = {"Healthy"}

\* C14: the RPC deadline is rpcTimeoutDur after the start of the RPC stage,
\* whatever the connect stage consumed; the timer ends the RPC only at that
\* deadline; and an RPC that ends within rpcTimeoutDur of its own start is
\* never classified RPCTimeout.
C14_OwnDeadline ==
    /\ rpcCount > 0 => rpcDeadline = rpcStart + rpcTimeoutDur
    /\ rpcBy = "timer" => rpcEnd = rpcStart + rpcTimeoutDur
    /\ (rpcErr \in RPCErrors /\ now >= dialDeadline) => rpcBy /= "none"
C14_SeparateDeadline ==
    /\ C14_OwnDeadline
    /\ (Exited /\ rpcCount > 0 /\ rpcEnd - rpcStart < rpcTimeoutDur)
          => "RPCTimeout" \notin reported

\* cancel() was called after the connection was established and before the
\* RPC was issued
CancelBetweenStages ==
    \/ cancelPc = "rpc"
    \/ cancelPc = "dialing" /\ cancelStage = "other" /\ dialErr = "nil"
\* cancel() was called after the RPC had completed
CancelAfterRPC ==
    \/ cancelPc \in {"check", "return"}
    \/ cancelPc = "calling" /\ cancelStage = "other"

\* C15: when cancel() has been called before the connect starts, the connect
\* fails and the run ends as ConnectionFailure with exit code 2; when it has
\* been called after the connection was established and before the RPC is
\* issued, the RPC fails and the run ends as RPCFailure with exit code 3; a
\* Healthy or Unhealthy run had no cancellation before its RPC completed.
C15_CancelBeforeStage ==
    /\ cancelPc = "dial" =>
          /\ pc /= "dial" => dialErr = "Canceled"
          /\ rpcCount = 0 /\ ~connOpen
          /\ Exited => (reported = {"ConnectionFailure"} /\ exitCode = 2)
    /\ CancelBetweenStages =>
          /\ pc \notin {"dialing", "rpc"} => (rpcErr = "Canceled" /\ rpcBy = "cancel")
          /\ Exited => (reported = {"RPCFailure"} /\ exitCode = 3)
    /\ (Exited /\ reported \cap {"Healthy", "Unhealthy"} /= {})
          => (cancelled => CancelAfterRPC)
C15_Witness ==
    Exited /\ cancelPc = "rpc" /\ rpcErr = "Canceled" /\ exitCode = 3 /\ rpcEnd = rpcStart

\* C16 (as stated): an interrupt never terminates the process; after an
\* interruption the exit code is one of 0, 2, 3, 4; and cancellation after the
\* RPC completed leaves the outcome to the status returned: Healthy with exit
\* code 0 for SERVING, Unhealthy with exit code 4 otherwise.
C16_OutcomeKept ==
    /\ (Exited /\ intrStage /= "none") => exitCode \in {0, 2, 3, 4}
    /\ (cancelled /\ CancelAfterRPC) => rpcBy \in {"remote", "timer"}
    /\ (Exited /\ cancelled /\ CancelAfterRPC /\ RPCSucceeded) =>
          IF respStatus = 1 THEN reported = {"Healthy"} /\ exitCode = 0
                            ELSE reported = {"Unhealthy"} /\ exitCode = 4
C16_InterruptHarmless ==
    /\ pc /= "killed"
    /\ C16_OutcomeKept
\* C16 (amended): the same, where an interrupt never terminates the process
\* once signal.Notify is in effect.
C16_InterruptHarmlessOnceNotified ==
    /\ notified => pc /= "killed"
    /\ C16_OutcomeKept
C16_Witness ==
    /\ Exited /\ cancelled /\ cancelPc = "check" /\ sigc = 1
    /\ reported = {"Healthy"} /\ exitCode = 0

\* C17: the health RPC is issued only on an open connection, and the
\* connection stays open, never closed, from its establishment to the return
\* of the health RPC, whatever the listener does in between.
C17_ConnectionHeld ==
    /\ pc \in {"rpc", "calling", "check", "return"} => (connOpen /\ closeCount = 0)
    /\ rpcErr = "pending" => connOpen
    /\ closeCount > 0 => pc = "exited"
C17_Witness ==
    pc = "calling" /\ cancelled /\ cancelPc = "calling" /\ connOpen /\ rpcErr = "Canceled"
====
